---- MODULE Spec2Model ----
(***************************************************************************)
(* Model of godot-rust-cli: the manifest (godot-rust-cli.json), the        *)
(* entry-point file src/lib.rs, the module source files and the gdns       *)
(* descriptor files, as they are changed by the create, destroy,           *)
(* add-platform and remove-platform commands.                               *)
(*                                                                         *)
(* Text is a sequence of one-character strings.  src/lib.rs is a sequence  *)
(* of lines; indentation and blank lines are left out, since the code only *)
(* looks at trimmed lines and at regex matches that never span a line.     *)
(*                                                                         *)
(* Environment: rustfmt and docker are installed and can be spawned.       *)
(***************************************************************************)
EXTENDS Integers, Sequences, FiniteSets, TLC

(***************************************************************************)
(* Bounds                                                                   *)
(***************************************************************************)
MaxModules == 2
MaxLibLines == 10
MaxEvents == 2
MaxTime == 2
MaxRuns == 2

(***************************************************************************)
(* Characters and text                                                      *)
(***************************************************************************)
Lowers == <<"a","b","c","d","e","f","g","h","i","j","k","l","m",
            "n","o","p","q","r","s","t","u","v","w","x","y","z">>
Uppers == <<"A","B","C","D","E","F","G","H","I","J","K","L","M",
            "N","O","P","Q","R","S","T","U","V","W","X","Y","Z">>

IsUpper(c) == \E i \in 1..Len(Uppers) : Uppers[i] = c
IsLower(c) == \E i \in 1..Len(Lowers) : Lowers[i] = c
ToLowerCh(c) == IF IsUpper(c) THEN Lowers[CHOOSE i \in 1..Len(Uppers) : Uppers[i] = c] ELSE c
ToUpperCh(c) == IF IsLower(c) THEN Uppers[CHOOSE i \in 1..Len(Lowers) : Lowers[i] = c] ELSE c

\* str::to_lowercase
ToLowercase(s) == [i \in 1..Len(s) |-> ToLowerCh(s[i])]

Range(s) == {s[i] : i \in 1..Len(s)}

RECURSIVE Concat(_)
Concat(ss) == IF ss = <<>> THEN <<>> ELSE Head(ss) \o Concat(Tail(ss))

\* position of every occurrence of pat in s
Occurrences(s, pat) ==
    {i \in 1..(Len(s) - Len(pat) + 1) : \A k \in 1..Len(pat) : s[i + k - 1] = pat[k]}

SetMin(S) == CHOOSE x \in S : \A y \in S : x <= y
SetMax(S) == CHOOSE x \in S : \A y \in S : x >= y

(***************************************************************************)
(* convert_case: to_case(Case::Snake) and to_case(Case::Pascal).           *)
(* A name is cut into words at spaces, underscores and hyphens, at a       *)
(* lower-to-upper change and before the last capital of an acronym.        *)
(***************************************************************************)
IsDelim(c) == c \in {" ", "_", "-"}

IsBoundary(s, i) ==
    /\ i > 1
    /\ \/ IsLower(s[i-1]) /\ IsUpper(s[i])
       \/ IsUpper(s[i-1]) /\ IsUpper(s[i]) /\ i < Len(s) /\ IsLower(s[i+1])

RECURSIVE WordsFrom(_, _, _, _)
WordsFrom(s, i, cur, acc) ==
    LET flushed == IF cur = <<>> THEN acc ELSE Append(acc, cur)
    IN  IF i > Len(s) THEN flushed
        ELSE IF IsDelim(s[i]) THEN WordsFrom(s, i + 1, <<>>, flushed)
        ELSE IF IsBoundary(s, i) THEN WordsFrom(s, i + 1, <<s[i]>>, flushed)
        ELSE WordsFrom(s, i + 1, Append(cur, s[i]), acc)

Words(s) == WordsFrom(s, 1, <<>>, <<>>)

Capitalize(w) == [i \in 1..Len(w) |-> IF i = 1 THEN ToUpperCh(w[i]) ELSE ToLowerCh(w[i])]

RECURSIVE JoinWith(_, _)
JoinWith(ws, sep) ==
    IF ws = <<>> THEN <<>>
    ELSE IF Len(ws) = 1 THEN ws[1]
    ELSE ws[1] \o sep \o JoinWith(Tail(ws), sep)

ToSnake(s) == JoinWith([i \in 1..Len(Words(s)) |-> ToLowercase(Words(s)[i])], <<"_">>)
ToPascal(s) == Concat([i \in 1..Len(Words(s)) |-> Capitalize(Words(s)[i])])

(***************************************************************************)
(* Text of src/lib.rs                                                       *)
(***************************************************************************)
\* "use gdnative::prelude::*;"
T_use == <<"u","s","e"," ","g","d","n","a","t","i","v","e",":",":","p","r","e","l","u","d","e",":",":","*",";">>
\* "fn init(handle: InitHandle) {"
T_fn_open == <<"f","n"," ","i","n","i","t","(","h","a","n","d","l","e",":"," ","I","n","i","t","H","a","n","d","l","e",")"," ","{">>
\* "}"
T_fn_close == <<"}">>
\* "godot_init!(init);"
T_godot_init == <<"g","o","d","o","t","_","i","n","i","t","!","(","i","n","i","t",")",";">>
\* "mod "
T_mod_kw == <<"m","o","d"," ">>
\* "handle.add_class::<"
T_add_class == <<"h","a","n","d","l","e",".","a","d","d","_","c","l","a","s","s",":",":","<">>
\* "handle.add_tool_class::<"
T_add_tool_class == <<"h","a","n","d","l","e",".","a","d","d","_","t","o","o","l","_","c","l","a","s","s",":",":","<">>
\* "::"
T_path_sep == <<":",":">>
\* ">();"
T_call_end == <<">","(",")",";">>

\* format!("mod {};", snake)
ModLine(snake) == T_mod_kw \o snake \o <<";">>
\* format!("handle.add_class::<{}::{}>();", snake, pascal)
HandleLine(snake, pascal) == T_add_class \o snake \o T_path_sep \o pascal \o T_call_end
\* format!("handle.add_tool_class::<{}::{}>();", snake, pascal)
ToolHandleLine(snake, pascal) == T_add_tool_class \o snake \o T_path_sep \o pascal \o T_call_end

\* the three line patterns: a literal, then ".*", then one closing character
PatMod == [lit |-> <<"m","o","d">>, term |-> ";"]
PatInit == [lit |-> <<"i","n","i","t">>, term |-> "{"]
PatHandle == [lit |-> <<"h","a","n","d","l","e">>, term |-> ";"]

\* Column where the leftmost, greedy match of "lit.*term" in one line ends;
\* 0 when the line has no match.  A line holds at most one match, because
\* the match runs to the last term character of the line.
RegexMatchEnd(line, pat) ==
    LET starts == Occurrences(line, pat.lit)
    IN  IF starts = {} THEN 0
        ELSE LET from == SetMin(starts) + Len(pat.lit)
                 ends == {j \in from..Len(line) : line[j] = pat.term}
             IN  IF ends = {} THEN 0 ELSE SetMax(ends)

\* get_insert_location: the end of the first match when is_first, else the
\* end of the last match, else offset 0 (the start of the first line).
get_insert_location(modules, lib_file_contents, line_pattern, is_first) ==
    LET matching == {i \in 1..Len(lib_file_contents) :
                        RegexMatchEnd(lib_file_contents[i], line_pattern) > 0}
    IN  IF matching = {} THEN [ln |-> 1, col |-> 0]
        ELSE LET i == IF is_first THEN SetMin(matching) ELSE SetMax(matching)
             IN  [ln |-> i, col |-> RegexMatchEnd(lib_file_contents[i], line_pattern)]

\* String::insert_str at an offset
insert_str(contents, pos, text) ==
    [i \in 1..Len(contents) |->
        IF i = pos.ln
        THEN SubSeq(contents[i], 1, pos.col) \o text
                 \o SubSeq(contents[i], pos.col + 1, Len(contents[i]))
        ELSE contents[i]]

(***************************************************************************)
(* rustfmt: one statement per line, "{}" for an empty body, and every run   *)
(* of consecutive top-level mod declarations sorted by name.               *)
(***************************************************************************)
\* the members of a set of numbers in increasing order
SortedSeq(S) ==
    [k \in 1..Cardinality(S) |-> CHOOSE x \in S : Cardinality({y \in S : y < x}) = k - 1]

\* A statement ends at ";" and at "{"; a "}" is a statement of its own.
StatementEnds(line) ==
    {j \in 1..Len(line) : \/ line[j] \in {";", "{", "}"}
                          \/ j = Len(line)
                          \/ line[j + 1] = "}"}

SplitStatements(line) ==
    LET ends == SortedSeq(StatementEnds(line))
    IN  [k \in 1..Len(ends) |->
            SubSeq(line, IF k = 1 THEN 1 ELSE ends[k - 1] + 1, ends[k])]

IsModDecl(st) ==
    /\ Len(st) > Len(T_mod_kw) + 1
    /\ SubSeq(st, 1, Len(T_mod_kw)) = T_mod_kw
    /\ st[Len(st)] = ";"

\* a statement without the visibility in front of it
T_pub == <<"p","u","b"," ">>
StripPub(st) ==
    IF Len(st) > Len(T_pub) /\ SubSeq(st, 1, Len(T_pub)) = T_pub
    THEN SubSeq(st, Len(T_pub) + 1, Len(st))
    ELSE st

\* a module item, which rustfmt sorts by name whatever its visibility is
IsModItem(st) == IsModDecl(StripPub(st))
ModNameOf(st) == SubSeq(StripPub(st), Len(T_mod_kw) + 1, Len(StripPub(st)) - 1)

CharOrder == Uppers \o <<"_">> \o Lowers
Rank(c) == IF \E i \in 1..Len(CharOrder) : CharOrder[i] = c
           THEN CHOOSE i \in 1..Len(CharOrder) : CharOrder[i] = c
           ELSE 0

RECURSIVE LexLeq(_, _)
LexLeq(a, b) ==
    IF a = <<>> THEN TRUE
    ELSE IF b = <<>> THEN FALSE
    ELSE IF Rank(a[1]) < Rank(b[1]) THEN TRUE
    ELSE IF Rank(a[1]) > Rank(b[1]) THEN FALSE
    ELSE LexLeq(Tail(a), Tail(b))

RECURSIVE InsertSorted(_, _)
InsertSorted(st, sorted) ==
    IF sorted = <<>> THEN <<st>>
    ELSE IF LexLeq(ModNameOf(sorted[1]), ModNameOf(st))
    THEN <<sorted[1]>> \o InsertSorted(st, Tail(sorted))
    ELSE <<st>> \o sorted

RECURSIVE SortMods(_)
SortMods(run) == IF run = <<>> THEN <<>>
                 ELSE InsertSorted(run[Len(run)], SortMods(SubSeq(run, 1, Len(run) - 1)))

RECURSIVE ModRunLen(_)
ModRunLen(sts) == IF sts = <<>> \/ ~IsModItem(Head(sts)) THEN 0
                  ELSE 1 + ModRunLen(Tail(sts))

RECURSIVE ReorderMods(_, _)
ReorderMods(sts, depth) ==
    IF sts = <<>> THEN <<>>
    ELSE IF depth = 0 /\ IsModItem(Head(sts))
    THEN LET n == ModRunLen(sts)
         IN  SortMods(SubSeq(sts, 1, n)) \o ReorderMods(SubSeq(sts, n + 1, Len(sts)), 0)
    ELSE LET h == Head(sts)
             d == IF h[Len(h)] = "{" THEN depth + 1
                  ELSE IF h = T_fn_close /\ depth > 0 THEN depth - 1
                  ELSE depth
         IN  <<h>> \o ReorderMods(Tail(sts), d)

RECURSIVE JoinEmptyBodies(_)
JoinEmptyBodies(sts) ==
    IF Len(sts) < 2 THEN sts
    ELSE IF sts[1][Len(sts[1])] = "{" /\ sts[2] = T_fn_close
    THEN <<sts[1] \o T_fn_close>> \o JoinEmptyBodies(SubSeq(sts, 3, Len(sts)))
    ELSE <<sts[1]>> \o JoinEmptyBodies(Tail(sts))

Rustfmt(contents) ==
    JoinEmptyBodies(ReorderMods(
        Concat([i \in 1..Len(contents) |-> SplitStatements(contents[i])]), 0))

\* write_and_fmt("src/lib.rs", code): the file holds the formatted code
write_and_fmt(code) == Rustfmt(code)

(***************************************************************************)
(* add_module_to_lib: the new contents of src/lib.rs                        *)
(***************************************************************************)
\* the plain registration line, whatever the kind of the project is
handle_line_plain(module_name_snake_case, module_name_pascal_case, is_plugin) ==
    HandleLine(module_name_snake_case, module_name_pascal_case)

\* the registration line of a module: add_tool_class in a plugin
handle_line(module_name_snake_case, module_name_pascal_case, is_plugin) ==
    IF is_plugin
    THEN ToolHandleLine(module_name_snake_case, module_name_pascal_case)
    ELSE HandleLine(module_name_snake_case, module_name_pascal_case)

add_module_to_lib(module_name, config_modules, is_plugin, lib_read) ==
    LET module_name_snake_case == ToSnake(module_name)
        module_name_pascal_case == ToPascal(module_name)
        mod_insert_location ==
            get_insert_location(config_modules, lib_read, PatMod, FALSE)
        with_mod == insert_str(lib_read, mod_insert_location,
                               ModLine(module_name_snake_case))
        handle_insert_location ==
            IF Len(config_modules) = 0
            THEN get_insert_location(config_modules, with_mod, PatInit, TRUE)
            ELSE get_insert_location(config_modules, with_mod, PatHandle, TRUE)
    IN  write_and_fmt(insert_str(with_mod, handle_insert_location,
                                 handle_line(module_name_snake_case,
                                             module_name_pascal_case, is_plugin)))

\* the lib.rs that command_new writes: Scope::to_string(), not formatted
InitialLib == <<T_use, T_fn_open, T_fn_close, T_godot_init>>

(***************************************************************************)
(* Inputs                                                                   *)
(***************************************************************************)
\* the library name given to `new`: "Xy Z"
LibraryName == <<"X","y"," ","Z">>
\* module names a user types: "Ab", "ab", "Model" and the library name
ModuleNames == { <<"A","b">>, <<"a","b">>, <<"M","o","d","e","l">>, LibraryName }

\* a module name in PascalCase
PascalName == <<"A","b">>

P_windows == <<"w","i","n","d","o","w","s">>
P_linux == <<"l","i","n","u","x">>
P_macos == <<"m","a","c","o","s">>
P_android == <<"a","n","d","r","o","i","d">>
\* platform names a user types
PlatformInputs == { P_windows, <<"W","i","n","d","o","w","s">>, P_linux }

\* the platforms the documentation of add-platform lists
DocumentedPlatforms == {P_android, P_linux, P_windows, P_macos}

\* the platforms add-platform accepts, with their toolchain triples
VALID_PLATFORMS == [p \in {P_windows} |-> "x86_64-pc-windows-gnu"]

(***************************************************************************)
(* The manifest godot-rust-cli.json                                         *)
(***************************************************************************)
NoConfig == [exists |-> FALSE, name |-> <<>>, is_plugin |-> FALSE,
             platforms |-> <<>>, modules |-> <<>>]

create_initial_config(library_name, is_plugin) ==
    [exists |-> TRUE, name |-> library_name, is_plugin |-> is_plugin,
     platforms |-> <<>>, modules |-> <<>>]

\* every directory passes for a library directory
in_lib_dir_always(config) == TRUE

\* exit_if_not_lib_dir passes when the manifest file is in the current directory
in_lib_dir(config) == config.exists

is_module_in_config(module_name, config) ==
    \E i \in 1..Len(config.modules) : config.modules[i] = module_name

\* add_module_to_config without the check for the root module of a plugin
add_module_to_config_unguarded(module_name, config) ==
    [config EXCEPT !.modules = Append(@, module_name)]

\* add_module_to_config: the saved manifest
add_module_to_config(module_name, config) ==
    IF config.is_plugin /\ ToSnake(module_name) = ToSnake(config.name)
    THEN config
    ELSE [config EXCEPT !.modules = Append(@, module_name)]

RemoveAt(seq, index) == SubSeq(seq, 1, index - 1) \o SubSeq(seq, index + 1, Len(seq))
Position(seq, e) == SetMin({i \in 1..Len(seq) : seq[i] = e})

\* remove_module_from_config_if_exists that goes on when the module is missing
remove_module_from_config_no_exit(module_name, config) ==
    IF ~is_module_in_config(module_name, config)
    THEN [ok |-> TRUE, config |-> config]
    ELSE [ok |-> TRUE,
          config |-> [config EXCEPT !.modules = RemoveAt(@, Position(@, module_name))]]

\* remove_module_from_config_if_exists: ok is FALSE when it exits with 1
remove_module_from_config_if_exists(module_name, config) ==
    IF ~is_module_in_config(module_name, config)
    THEN [ok |-> FALSE, config |-> config]
    ELSE [ok |-> TRUE,
          config |-> [config EXCEPT !.modules = RemoveAt(@, Position(@, module_name))]]

is_platform_in_config(platform, config) ==
    \E i \in 1..Len(config.platforms) : config.platforms[i] = platform

\* add_platform_to_config: ok is FALSE when it exits with 1
add_platform_to_config(platform, config) ==
    LET platform_lowercase == ToLowercase(platform)
    IN  IF is_platform_in_config(platform_lowercase, config)
        THEN [ok |-> FALSE, config |-> config]
        ELSE [ok |-> TRUE,
              config |-> [config EXCEPT !.platforms = Append(@, platform_lowercase)]]

\* remove_platform_from_config_if_exists that goes on when the platform is missing
remove_platform_from_config_no_exit(platform, config) ==
    LET platform_lowercase == ToLowercase(platform)
    IN  IF ~is_platform_in_config(platform_lowercase, config)
        THEN [ok |-> TRUE, config |-> config]
        ELSE [ok |-> TRUE,
              config |-> [config EXCEPT
                            !.platforms = RemoveAt(@, Position(@, platform_lowercase))]]

\* remove_platform_from_config_if_exists: ok is FALSE when it exits with 1
remove_platform_from_config_if_exists(platform, config) ==
    LET platform_lowercase == ToLowercase(platform)
    IN  IF ~is_platform_in_config(platform_lowercase, config)
        THEN [ok |-> FALSE, config |-> config]
        ELSE [ok |-> TRUE,
              config |-> [config EXCEPT
                            !.platforms = RemoveAt(@, Position(@, platform_lowercase))]]

(***************************************************************************)
(* Cross.toml and the docker directory                                      *)
(***************************************************************************)
NoCross == [exists |-> FALSE, windows |-> FALSE, dockerfiles |-> {}]

\* add_image_override_for_platform
add_image_override_for_platform(platform, cross) ==
    [exists |-> TRUE,
     windows |-> cross.windows \/ platform = P_windows,
     dockerfiles |-> IF platform = P_windows
                     THEN cross.dockerfiles \cup {"Dockerfile.x86_64-pc-windows-gnu"}
                     ELSE cross.dockerfiles]

(***************************************************************************)
(* The commands.  A project is the record of its files; a command gives the *)
(* project it leaves behind, its exit status (0, 1, or 101 for a panic)    *)
(* and the error it logged.                                                 *)
(***************************************************************************)
\* the directories of the Godot project a gdns file can be in: gdnative,
\* addons/<library>/gdnative, another directory under addons/<library>, and
\* another directory outside addons/<library>
L_gdnative == "gdnative"
L_plugin_gdnative == "addons/library/gdnative"
L_plugin_other == "addons/library/other"
L_project_other == "other"
GdnsLocs == {L_gdnative, L_plugin_gdnative, L_plugin_other, L_project_other}

\* the gdns file of a module in the default gdnative directory
GdnsAtDefault(stem, is_plugin) ==
    [loc |-> IF is_plugin THEN L_plugin_gdnative ELSE L_gdnative, stem |-> stem]

\* the directory is inside the directory destroy walks through
in_search_dir(loc, is_plugin) ==
    IF is_plugin THEN loc \in {L_plugin_gdnative, L_plugin_other} ELSE TRUE

command_create(st, name) ==
    IF ~in_lib_dir(st.config)
    THEN [st |-> st, exit |-> 1, log |-> "not_lib_dir"]
    ELSE
    LET module_name_snake_case == ToSnake(name)
        config == st.config
    IN  [st |-> [config |-> add_module_to_config(name, config),
                 lib |-> add_module_to_lib(name, config.modules, config.is_plugin, st.lib),
                 src_files |-> st.src_files \cup {module_name_snake_case},
                 gdns_files |-> st.gdns_files \cup {GdnsAtDefault(module_name_snake_case,
                                                                  config.is_plugin)},
                 cross |-> st.cross,
                 gdnlib |-> st.gdnlib],
         exit |-> 0,
         log |-> IF is_module_in_config(name, config) THEN "module_exists" ELSE "none"]

\* the line is a statement of the module when its visibility is left out
is_module_statement_any_visibility(line, snake, pascal) ==
    StripPub(line) \in {ModLine(snake), HandleLine(snake, pascal),
                        ToolHandleLine(snake, pascal)}

\* the trimmed line equals one of the three search queries of destroy
is_module_statement(line, snake, pascal) ==
    LET module_mod_search_query == ModLine(snake)
        module_handle_search_query == HandleLine(snake, pascal)
        module_plugin_handle_search_query == ToolHandleLine(snake, pascal)
    IN  \/ line = module_mod_search_query
        \/ line = module_handle_search_query
        \/ line = module_plugin_handle_search_query

\* the lines of lib.rs other than the declaration of the module
remove_module_lines_mod_only(lib_file_contents, snake, pascal) ==
    SelectSeq(lib_file_contents, LAMBDA line : line # ModLine(snake))

\* the lines of lib.rs other than the three statements of the module
remove_module_lines(lib_file_contents, snake, pascal) ==
    SelectSeq(lib_file_contents, LAMBDA line : ~is_module_statement(line, snake, pascal))

\* the gdns files left when the default directory is emptied
remove_gdns_file_whole_dir(gdns_files, stem, is_plugin) ==
    {f \in gdns_files : f.loc # GdnsAtDefault(stem, is_plugin).loc}

\* the gdns files left after destroy looked for <stem>.gdns
remove_gdns_file(gdns_files, stem, is_plugin) ==
    IF GdnsAtDefault(stem, is_plugin) \in gdns_files
    THEN gdns_files \ {GdnsAtDefault(stem, is_plugin)}
    ELSE {f \in gdns_files : ~(f.stem = stem /\ in_search_dir(f.loc, is_plugin))}

command_destroy(st, name) ==
    IF ~in_lib_dir(st.config)
    THEN [st |-> st, exit |-> 1, log |-> "not_lib_dir"]
    ELSE
    LET module_name_snake_case == ToSnake(name)
        module_name_pascal_case == ToPascal(name)
        removed == remove_module_from_config_if_exists(module_name_pascal_case, st.config)
    IN  IF ~removed.ok
        THEN [st |-> st, exit |-> 1, log |-> "module_missing"]
        ELSE
        LET written ==
              [config |-> removed.config,
               lib |-> write_and_fmt(remove_module_lines(st.lib, module_name_snake_case,
                                                         module_name_pascal_case)),
               src_files |-> st.src_files,
               gdns_files |-> remove_gdns_file(st.gdns_files, module_name_snake_case,
                                               st.config.is_plugin),
               cross |-> st.cross,
               gdnlib |-> st.gdnlib]
        IN  IF module_name_snake_case \in st.src_files
            THEN [st |-> [written EXCEPT !.src_files = @ \ {module_name_snake_case}],
                  exit |-> 0, log |-> "none"]
            ELSE [st |-> written, exit |-> 101, log |-> "panic_remove_file"]

command_platform_add(st, platform) ==
    LET platform_normalized == ToLowercase(platform)
    IN  IF platform_normalized \notin DOMAIN VALID_PLATFORMS
        THEN [st |-> st, exit |-> 1, log |-> "invalid_target"]
        ELSE IF ~st.config.exists
        THEN [st |-> st, exit |-> 101, log |-> "panic_read_config"]
        ELSE LET added == add_platform_to_config(platform_normalized, st.config)
             IN  IF ~added.ok
                 THEN [st |-> st, exit |-> 1, log |-> "platform_exists"]
                 ELSE [st |-> [st EXCEPT
                                 !.config = added.config,
                                 !.cross = add_image_override_for_platform(
                                               platform_normalized, @)],
                       exit |-> 0, log |-> "none"]

command_platform_remove(st, platform) ==
    IF ~st.config.exists
    THEN [st |-> st, exit |-> 101, log |-> "panic_read_config"]
    ELSE LET removed == remove_platform_from_config_if_exists(platform, st.config)
         IN  IF ~removed.ok
             THEN [st |-> st, exit |-> 1, log |-> "platform_missing"]
             ELSE [st |-> [st EXCEPT !.config = removed.config],
                   exit |-> 0, log |-> "none"]

P_android_arm == <<"a","n","d","r","o","i","d",".","a","r","m">>
D_addons == <<"a","d","d","o","n","s">>
D_gdnative == <<"g","d","n","a","t","i","v","e">>
D_bin == <<"b","i","n">>

(***************************************************************************)
(* The gdnlib file.  A path is the sequence of its components between the  *)
(* slashes, so res://gdnative is <<"res:", "", "gdnative">>; a file name   *)
(* is its prefix, the name of the library and its extension.               *)
(***************************************************************************)
ResScheme == <<"r","e","s",":">>
D_aarch64_linux_android == <<"a","a","r","c","h","6","4","-","l","i","n","u","x","-","a","n","d","r","o","i","d">>
D_x86_64_linux_android == <<"x","8","6","_","6","4","-","l","i","n","u","x","-","a","n","d","r","o","i","d">>

GdnlibKeys == {"OSX.64", "Windows.64", "X11.64", "Android.arm64-v8a", "Android.x86_64"}

\* "res:/" for every kind of project
gdnlib_base_path_root(rust_library_name_normalized, is_plugin) == <<ResScheme, <<>>>>

\* the base path of the binaries: res://addons/<name> in a plugin, res:/
gdnlib_base_path(rust_library_name_normalized, is_plugin) ==
    IF is_plugin
    THEN <<ResScheme, <<>>, D_addons, rust_library_name_normalized>>
    ELSE <<ResScheme, <<>>>>

\* one entry: format!("{}/gdnative/bin/<dirs>/<prefix>{}.<ext>", base, name)
BinPath(base, dirs, prefix, name, ext) ==
    [dir |-> base \o <<D_gdnative, D_bin>> \o dirs,
     file |-> [prefix |-> prefix, name |-> name, ext |-> ext]]

\* Gdnlib::new
Gdnlib_new(rust_library_name_normalized, is_plugin) ==
    LET base == gdnlib_base_path(rust_library_name_normalized, is_plugin)
        name == rust_library_name_normalized
        osx_bin_path == BinPath(base, <<P_macos>>, "lib", name, "dylib")
        windows_bin_path == BinPath(base, <<P_windows>>, "", name, "dll")
        linux_bin_path == BinPath(base, <<P_linux>>, "lib", name, "so")
        android_arm_bin_path ==
            BinPath(base, <<P_android, D_aarch64_linux_android>>, "lib", name, "so")
        android_64_bin_path ==
            BinPath(base, <<P_android, D_x86_64_linux_android>>, "lib", name, "so")
    IN  [exists |-> TRUE,
         entry |-> [k \in GdnlibKeys |->
                      CASE k = "OSX.64" -> osx_bin_path
                        [] k = "Windows.64" -> windows_bin_path
                        [] k = "X11.64" -> linux_bin_path
                        [] k = "Android.arm64-v8a" -> android_arm_bin_path
                        [] k = "Android.x86_64" -> android_64_bin_path],
         dependencies |-> [k \in GdnlibKeys |-> <<>>]]

\* no gdnlib file
NoGdnlib == [exists |-> FALSE, entry |-> <<>>, dependencies |-> <<>>]

\* the path of the Godot project in .cargo/config.toml, as its components
GodotProjectPath == << <<"p","l","a","t","f","o","r","m","e","r">> >>
\* a directory without a project.godot file
EmptyDirPath == << <<"e","m","p","t","y">> >>

\* the directory holds a project.godot file
has_project_godot(godot_project_dir) == godot_project_dir = GodotProjectPath

\* a directory of that name is in the current directory: the directory of
\* the library is named by the snake_case form of the name new was given
library_path_exists(st, name) == st.config.exists /\ name = ToSnake(st.config.name)

\* command_new, up to the build at its end; st is the library directory
\* the snake_case form of the name leads to, NotALibrary when there is none
command_new(st, name, godot_project_dir, plugin) ==
    IF library_path_exists(st, name)
    THEN [st |-> st, exit |-> 1, log |-> "directory_exists"]
    ELSE IF ~has_project_godot(godot_project_dir)
    THEN [st |-> st, exit |-> 1, log |-> "godot_project_invalid"]
    ELSE
    LET library_name_normalized == ToSnake(name)
        written == [config |-> create_initial_config(name, plugin),
                    lib |-> InitialLib,
                    src_files |-> st.src_files,
                    gdns_files |-> st.gdns_files,
                    cross |-> st.cross,
                    gdnlib |-> st.gdnlib]
        created == IF plugin THEN command_create(written, name).st ELSE written
    IN  [st |-> [created EXCEPT !.gdnlib = Gdnlib_new(library_name_normalized, plugin)],
         exit |-> 0, log |-> "none"]

\* a directory that holds no library
NotALibrary == [config |-> NoConfig, lib |-> <<>>, src_files |-> {},
                gdns_files |-> {}, cross |-> NoCross, gdnlib |-> NoGdnlib]

\* the project `new --skip-build` creates where no library is yet
NewProject(plugin) == command_new(NotALibrary, LibraryName, GodotProjectPath, plugin).st

(***************************************************************************)
(* Builds                                                                   *)
(***************************************************************************)
\* the toolchain triple of each platform a build can target
PLATFORM_TOOLCHAINS ==
    [p \in {P_android_arm, P_android, P_windows, P_linux, P_macos} |->
        CASE p = P_android_arm -> "aarch64-linux-android"
          [] p = P_android -> "x86_64-linux-android"
          [] p = P_windows -> "x86_64-pc-windows-gnu"
          [] p = P_linux -> "x86_64-unknown-linux-gnu"
          [] p = P_macos -> "x86_64-apple-darwin"]

\* the values of consts::OS the builds are run on
NativePlatforms == {P_linux, P_windows, P_macos}

\* the triples godot-rust-cli is compiled for on each of them: build.rs
\* hands the TARGET of its own compilation to env!("TARGET")
HostTargets ==
    [p \in NativePlatforms |->
        CASE p = P_linux -> {"x86_64-unknown-linux-gnu"}
          [] p = P_windows -> {"x86_64-pc-windows-gnu", "x86_64-pc-windows-msvc"}
          [] p = P_macos -> {"x86_64-apple-darwin"}]


NoRun == [platform |-> <<>>, tool |-> "none", target |-> "none", release |-> FALSE,
          library |-> [toolchain |-> "none", profile |-> "none", prefix |-> "",
                       name |-> <<>>, ext |-> ""],
          bin_path |-> <<>>]

\* a build with cargo whatever the platform is
is_native_build_always(platform, native_platform) == TRUE

\* build_for_platform builds with cargo, and not with cross, for this platform
is_native_build(platform, native_platform) == platform = native_platform

\* the directory of the dynamic libraries, always the one of a plain project
godot_project_bin_path_flat(godot_project_absolute_path, rust_library_name, platform, is_plugin) ==
    godot_project_absolute_path \o <<D_gdnative, D_bin, platform>>

\* the directory build_for_platform creates and copies the dynamic library to
godot_project_bin_path(godot_project_absolute_path, rust_library_name, platform, is_plugin) ==
    IF is_plugin
    THEN godot_project_absolute_path
           \o <<D_addons, rust_library_name, D_gdnative, D_bin, platform>>
    ELSE godot_project_absolute_path \o <<D_gdnative, D_bin, platform>>

\* build_for_platform: ok is FALSE when it panics before it runs anything;
\* run tells the build command it spawns, the library file it copies and
\* the directory it creates and copies to
build_for_platform(rust_library_name, godot_project_absolute_path, platform, is_release, is_plugin, native_platform, TARGET) ==
    IF platform \notin DOMAIN PLATFORM_TOOLCHAINS
    THEN [ok |-> FALSE, run |-> NoRun]
    ELSE
    LET debug_or_release == IF is_release THEN "release" ELSE "debug"
        toolchain == PLATFORM_TOOLCHAINS[platform]
        dynamic_library_prefix == IF platform = P_windows THEN "" ELSE "lib"
        dynamic_library_ext == IF platform = P_windows THEN "dll"
                               ELSE IF platform = P_macos THEN "dylib" ELSE "so"
    IN  [ok |-> TRUE,
         run |-> [platform |-> platform,
                  tool |-> IF is_native_build(platform, native_platform)
                           THEN "cargo" ELSE "cross",
                  target |-> IF is_native_build(platform, native_platform)
                             THEN TARGET ELSE toolchain,
                  release |-> is_release,
                  library |-> [toolchain |-> toolchain, profile |-> debug_or_release,
                               prefix |-> dynamic_library_prefix,
                               name |-> rust_library_name, ext |-> dynamic_library_ext],
                  bin_path |-> godot_project_bin_path(godot_project_absolute_path,
                                                      rust_library_name, platform,
                                                      is_plugin)]]

\* what Command::status() returns: Err when cargo or cross cannot be
\* spawned, else Ok with the exit status, which is 101 when the build failed
ExitStatuses == {0, 101}
\* Command::status() cannot spawn the build command
SpawnError == [ok |-> FALSE, code |-> 0]
\* the build command was spawned and exits with a status
Exited(code) == [ok |-> TRUE, code |-> code]
StatusResults == {Exited(code) : code \in ExitStatuses} \cup {SpawnError}

\* build_for_platform goes on only after a build command that exited with 0
build_goes_on_after_success(result) == result.ok /\ result.code = 0

\* .status().expect(..) panics on Err; the exit status of Ok is dropped
build_goes_on(result) == result.ok

\* no build has returned
NoFinish == [platform |-> <<>>, status |-> 0, created |-> <<>>,
             copied |-> [from |-> NoRun.library, to |-> <<>>], complete |-> FALSE]

\* what build_for_platform does after its build command: create_dir_all of
\* the directory, cp of the library file into it, "Build complete"
after_build(run, status) ==
    [platform |-> run.platform, status |-> status, created |-> run.bin_path,
     copied |-> [from |-> run.library, to |-> run.bin_path], complete |-> TRUE]

\* the registered platforms first and the native platform last
build_order_native_last(config, build_all_platforms, native_platform) ==
    (IF build_all_platforms THEN config.platforms ELSE <<>>) \o <<native_platform>>

\* the platforms command_build builds, in order
build_order(config, build_all_platforms, native_platform) ==
    <<native_platform>> \o (IF build_all_platforms THEN config.platforms ELSE <<>>)

RECURSIVE build_each(_, _, _, _, _, _)
\* the builds of a list of platforms, up to the first that panics; results
\* are what Command::status() returns for each of them
build_each(config, platforms, is_release, native_platform, TARGET, results) ==
    IF platforms = <<>>
    THEN [ok |-> TRUE, log |-> "none", runs |-> <<>>, finished |-> NoFinish]
    ELSE LET b == build_for_platform(ToSnake(config.name), GodotProjectPath,
                                     Head(platforms), is_release, config.is_plugin,
                                     native_platform, TARGET)
             rest == build_each(config, Tail(platforms), is_release, native_platform,
                                TARGET, Tail(results))
             done == after_build(b.run, Head(results).code)
         IN  IF ~b.ok
             THEN [ok |-> FALSE, log |-> "panic_toolchain", runs |-> <<>>,
                   finished |-> NoFinish]
             ELSE IF ~build_goes_on(Head(results))
             THEN [ok |-> FALSE,
                   log |-> IF Head(results).ok THEN "panic_build_failed"
                           ELSE "panic_spawn",
                   runs |-> IF Head(results).ok THEN <<b.run>> ELSE <<>>,
                   finished |-> NoFinish]
             ELSE [ok |-> rest.ok, log |-> rest.log, runs |-> <<b.run>> \o rest.runs,
                   finished |-> IF rest.finished = NoFinish THEN done
                                ELSE rest.finished]

\* command_build: the project is left as it is; runs are the builds it made
command_build(st, is_release, build_all_platforms, native_platform, TARGET, results) ==
    IF ~st.config.exists
    THEN [st |-> st, exit |-> 101, log |-> "panic_read_config", runs |-> <<>>,
          finished |-> NoFinish]
    ELSE LET b == build_each(st.config,
                             build_order(st.config, build_all_platforms, native_platform),
                             is_release, native_platform, TARGET, results)
         IN  [st |-> st, exit |-> IF b.ok THEN 0 ELSE 101, log |-> b.log,
              runs |-> b.runs, finished |-> b.finished]

\* every build command of one command_build returns the same result
SameResults(config, build_all_platforms, native_platform, result) ==
    IF ~config.exists THEN <<>>
    ELSE [i \in 1..Len(build_order(config, build_all_platforms, native_platform))
             |-> result]

(***************************************************************************)
(* State                                                                    *)
(***************************************************************************)
VARIABLES
    config,      \* godot-rust-cli.json
    lib,         \* the lines of src/lib.rs
    src_files,   \* the stems of the module files src/<stem>.rs
    gdns_files,  \* the gdns files in the Godot project
    cross,       \* Cross.toml and the docker directory
    gdnlib,      \* the gdnlib file that new wrote into the Godot project
    last,        \* the command that ran last, its exit status and logged error
    rt,          \* the project before the last command, kept when that was a
                 \* create or an add-platform that exited with 0
    native,      \* consts::OS in lowercase
    native_target, \* env!("TARGET"): the triple godot-rust-cli was compiled for
    runs,        \* the builds begun by the last command, in order
    finished,    \* the build that returned last: the exit status of its build
                 \* command and what build_for_platform did after it
    pc,          \* where the build process is: "idle" when no command runs
    job,         \* the flags of the build command that runs
    todo,        \* the platforms command_build still has to build
    running,     \* the builds (indexes of runs) that have not returned
    chan,        \* the events the watcher sent and the loop has not received
    emitted,     \* how many events the watcher has sent
    now,         \* the wall clock, in seconds
    last_checked,\* last_checked of build_and_watch_for_changes
    last_built,  \* the time at which the latest build of the watch returned
    seen         \* the event the loop received last and what it did with it

projectvars == <<config, lib, src_files, gdns_files, cross, gdnlib>>
procvars == <<pc, job, todo, running, chan, emitted, now, last_checked, last_built,
              seen>>
vars == <<config, lib, src_files, gdns_files, cross, gdnlib, last, rt, native,
          native_target, runs, finished,
          pc, job, todo, running, chan, emitted, now, last_checked, last_built, seen>>

Project == [config |-> config, lib |-> lib, src_files |-> src_files,
            gdns_files |-> gdns_files, cross |-> cross, gdnlib |-> gdnlib]

\* the arguments of a new command
NewArg(name, godot_project_dir) == [name |-> name, godot_project_dir |-> godot_project_dir]

NoRt == [valid |-> FALSE, name |-> <<>>, snap |-> NotALibrary]

Install(st) ==
    /\ config' = st.config
    /\ lib' = st.lib
    /\ src_files' = st.src_files
    /\ gdns_files' = st.gdns_files
    /\ cross' = st.cross
    /\ gdnlib' = st.gdnlib

NoJob == [watch |-> FALSE, is_release |-> FALSE, build_all_platforms |-> FALSE]
NoEvent == [op |-> "none", at |-> 0, last_built |-> 0, built |-> FALSE]

\* no build process runs
ProcIdle ==
    /\ pc = "idle"
    /\ job = NoJob
    /\ todo = <<>>
    /\ running = {}
    /\ chan = <<>>
    /\ emitted = 0
    /\ now = 0
    /\ last_checked = 0
    /\ last_built = 0
    /\ seen = NoEvent

InitProject(st) ==
    /\ config = st.config
    /\ lib = st.lib
    /\ src_files = st.src_files
    /\ gdns_files = st.gdns_files
    /\ cross = st.cross
    /\ gdnlib = st.gdnlib

Init ==
    /\ \E st \in {NewProject(FALSE), NewProject(TRUE), NotALibrary} : InitProject(st)
    /\ last = [op |-> "new", arg |-> NewArg(LibraryName, GodotProjectPath),
               exit |-> 0, log |-> "none"]
    /\ rt = NoRt
    /\ native = P_linux
    /\ native_target = "x86_64-unknown-linux-gnu"
    /\ runs = <<>>
    /\ finished = NoFinish
    /\ ProcIdle

Create(name) ==
    /\ Len(config.modules) < MaxModules
    /\ Len(lib) + 2 <= MaxLibLines
    /\ \E r \in {command_create(Project, name)} :
           /\ Install(r.st)
           /\ runs' = <<>> /\ finished' = NoFinish
           /\ UNCHANGED <<native, native_target, procvars>>
           /\ last' = [op |-> "create", arg |-> name, exit |-> r.exit, log |-> r.log]
           /\ rt' = IF r.exit = 0
                    THEN [valid |-> TRUE, name |-> name, snap |-> Project]
                    ELSE NoRt

Destroy(name) ==
    \E r \in {command_destroy(Project, name)} :
        /\ Install(r.st)
        /\ runs' = <<>> /\ finished' = NoFinish
        /\ UNCHANGED <<native, native_target, procvars>>
        /\ last' = [op |-> "destroy", arg |-> name, exit |-> r.exit, log |-> r.log]
        /\ rt' = NoRt

PlatformAdd(platform) ==
    \E r \in {command_platform_add(Project, platform)} :
        /\ Install(r.st)
        /\ runs' = <<>> /\ finished' = NoFinish
        /\ UNCHANGED <<native, native_target, procvars>>
        /\ last' = [op |-> "add_platform", arg |-> platform, exit |-> r.exit, log |-> r.log]
        /\ rt' = IF r.exit = 0
                 THEN [valid |-> TRUE, name |-> platform, snap |-> Project]
                 ELSE NoRt

PlatformRemove(platform) ==
    \E r \in {command_platform_remove(Project, platform)} :
        /\ Install(r.st)
        /\ runs' = <<>> /\ finished' = NoFinish
        /\ UNCHANGED <<native, native_target, procvars>>
        /\ last' = [op |-> "remove_platform", arg |-> platform, exit |-> r.exit,
                    log |-> r.log]
        /\ rt' = NoRt

\* the build command, run to its end; each of its build commands returns
\* result
Build(is_release, build_all_platforms, result) ==
    \E results \in {SameResults(config, build_all_platforms, native, result)} :
      \E r \in {command_build(Project, is_release, build_all_platforms, native,
                              native_target, results)} :
        /\ Install(r.st)
        /\ runs' = r.runs
        /\ finished' = r.finished
        /\ last' = [op |-> "build", arg |-> native, exit |-> r.exit, log |-> r.log]
        /\ rt' = NoRt
        /\ UNCHANGED <<native, native_target, procvars>>

\* the commands of a library; its builds succeed here, BuildSpec has them fail
Next ==
    \/ \E build_all_platforms \in BOOLEAN : Build(FALSE, build_all_platforms, Exited(0))
    \/ \E name \in ModuleNames : Create(name)
    \/ \E name \in ModuleNames : Destroy(name)
    \/ \E platform \in PlatformInputs : PlatformAdd(platform)
    \/ \E platform \in PlatformInputs : PlatformRemove(platform)

Spec == Init /\ [][Next]_vars

(***************************************************************************)
(* The directory above the library: new is run there again, and between    *)
(* the commands the user moves and copies gdns files in the Godot project. *)
(***************************************************************************)
\* the names given to new: both lead to the library directory xy_z
NewNames == {LibraryName, ToSnake(LibraryName)}
GodotProjectDirs == {GodotProjectPath, EmptyDirPath}
\* the module names given to create and destroy
WorkspaceModuleNames == {PascalName}
\* the gdns files of modules, that the user moves and copies
ModuleGdns == {f \in gdns_files : \E name \in WorkspaceModuleNames : f.stem = ToSnake(name)}
\* the directories the user moves and copies them to
UserLocs == {L_plugin_other, L_project_other}

\* command_new with its build at the end
New(name, godot_project_dir, plugin, skip_build) ==
    \E r \in {command_new(Project, name, godot_project_dir, plugin)}, result \in StatusResults :
      \E b \in {IF r.exit = 0 /\ ~skip_build
                THEN command_build(r.st, FALSE, FALSE, native, native_target,
                                   <<result>>)
                ELSE [st |-> r.st, exit |-> r.exit, log |-> r.log, runs |-> <<>>,
                      finished |-> NoFinish]} :
        /\ Install(r.st)
        /\ runs' = b.runs
        /\ finished' = b.finished
        /\ last' = [op |-> "new", arg |-> NewArg(name, godot_project_dir),
                    exit |-> b.exit, log |-> b.log]
        /\ rt' = NoRt
        /\ UNCHANGED <<native, native_target, procvars>>

\* the user moves a gdns file to another directory of the Godot project
MoveGdns(f, to) ==
    /\ f \in gdns_files
    /\ to # f.loc
    /\ gdns_files' = (gdns_files \ {f}) \cup {[f EXCEPT !.loc = to]}
    /\ last' = [op |-> "mv", arg |-> f.stem, exit |-> 0, log |-> "none"]
    /\ rt' = NoRt
    /\ runs' = <<>> /\ finished' = NoFinish
    /\ UNCHANGED <<config, lib, src_files, cross, gdnlib, native, native_target, procvars>>

\* the user copies a gdns file to another directory of the Godot project
CopyGdns(f, to) ==
    /\ f \in gdns_files
    /\ to # f.loc
    /\ gdns_files' = gdns_files \cup {[f EXCEPT !.loc = to]}
    /\ last' = [op |-> "cp", arg |-> f.stem, exit |-> 0, log |-> "none"]
    /\ rt' = NoRt
    /\ runs' = <<>> /\ finished' = NoFinish
    /\ UNCHANGED <<config, lib, src_files, cross, gdnlib, native, native_target, procvars>>

\* a statement as the user edits it: a declaration is made public, a
\* registration gets another class
EditedLine(line) ==
    IF IsModDecl(line) THEN T_pub \o line
    ELSE SubSeq(line, 1, Len(line) - Len(T_call_end)) \o <<"2">> \o T_call_end

\* the statements create writes for a module
ModuleStatements(name) ==
    {ModLine(ToSnake(name)), HandleLine(ToSnake(name), ToPascal(name)),
     ToolHandleLine(ToSnake(name), ToPascal(name))}

\* the user edits a declaration or a registration line of src/lib.rs
EditLine(i, name) ==
    /\ lib[i] \in ModuleStatements(name)
    /\ lib' = [lib EXCEPT ![i] = EditedLine(@)]
    /\ last' = [op |-> "edit", arg |-> name, exit |-> 0, log |-> "none"]
    /\ rt' = NoRt
    /\ runs' = <<>> /\ finished' = NoFinish
    /\ UNCHANGED <<config, src_files, gdns_files, cross, gdnlib, native, native_target,
                   procvars>>

WorkspaceNext ==
    \/ \E name \in NewNames, godot_project_dir \in GodotProjectDirs,
          plugin, skip_build \in BOOLEAN : New(name, godot_project_dir, plugin, skip_build)
    \/ \E name \in WorkspaceModuleNames : Create(name)
    \/ \E name \in WorkspaceModuleNames : Destroy(name)
    \/ \E f \in ModuleGdns, to \in UserLocs : MoveGdns(f, to)
    \/ \E f \in ModuleGdns, to \in UserLocs : CopyGdns(f, to)

WorkspaceSpec == Init /\ [][WorkspaceNext]_vars

\* create and destroy with the user editing src/lib.rs in between
EditNext ==
    \/ \E name \in WorkspaceModuleNames : Create(name)
    \/ \E name \in WorkspaceModuleNames : Destroy(name)
    \/ \E i \in 1..Len(lib), name \in WorkspaceModuleNames : EditLine(i, name)

EditSpec == Init /\ [][EditNext]_vars

(***************************************************************************)
(* The build process step by step: command_build and, with --watch,        *)
(* command_build_and_watch with its watcher thread, the channel and the    *)
(* wall clock.  The project files stay as they are.                        *)
(***************************************************************************)
\* the projects a build is run in
BuildProjects ==
    LET plain == NewProject(FALSE)
        plugin == NewProject(TRUE)
    IN  {plain, plugin, NotALibrary,
         command_platform_add(plain, P_windows).st,
         command_platform_add(plugin, P_windows).st}

BuildInit ==
    /\ \E st \in BuildProjects : InitProject(st)
    /\ last = [op |-> "new", arg |-> NewArg(LibraryName, GodotProjectPath),
               exit |-> 0, log |-> "none"]
    /\ rt = NoRt
    /\ native \in NativePlatforms
    /\ native_target \in HostTargets[native]
    /\ runs = <<>>
    /\ finished = NoFinish
    /\ ProcIdle

\* the process ends: the shell gets its exit status
Exit(op, status, log) ==
    /\ last' = [op |-> op, arg |-> native, exit |-> status, log |-> log]
    /\ pc' = "idle"
    /\ job' = NoJob
    /\ todo' = <<>>
    /\ running' = {}
    /\ chan' = <<>>

\* build_for_platform is entered: it spawns its build command
BeginBuild(platform) ==
    LET b == build_for_platform(ToSnake(config.name), GodotProjectPath, platform,
                                job.is_release, config.is_plugin, native, native_target)
    IN  /\ b.ok
        /\ runs' = Append(runs, b.run)
        /\ running' = running \cup {Len(runs) + 1}

ToolchainKnown(platform) == platform \in DOMAIN PLATFORM_TOOLCHAINS

\* the build command returned with a status: build_for_platform creates the
\* directory, copies and reports, and returns to its caller
FinishBuild(status) ==
    finished' = after_build(runs[Len(runs)], status)

\* command_build up to its first build_for_platform
StartBuild(is_release, build_all_platforms) ==
    /\ pc = "idle"
    /\ runs' = <<>> /\ finished' = NoFinish
    /\ emitted' = 0
    /\ seen' = NoEvent
    /\ IF ~config.exists
       THEN /\ Exit("build", 101, "panic_read_config")
       ELSE /\ pc' = "build_next"
            /\ job' = [watch |-> FALSE, is_release |-> is_release,
                       build_all_platforms |-> build_all_platforms]
            /\ todo' = build_order(config, build_all_platforms, native)
            /\ UNCHANGED <<last, running, chan>>
    /\ UNCHANGED <<projectvars, rt, native, native_target, now, last_checked, last_built>>

\* command_build calls build_for_platform for the next platform
BuildNext ==
    /\ pc = "build_next"
    /\ todo # <<>>
    /\ IF ~ToolchainKnown(Head(todo))
       THEN /\ Exit("build", 101, "panic_toolchain")
            /\ UNCHANGED runs
       ELSE \E spawned \in BOOLEAN :
              IF ~spawned
              THEN /\ Exit("build", 101, "panic_spawn")
                   /\ UNCHANGED runs
              ELSE /\ BeginBuild(Head(todo))
                   /\ pc' = "build_call"
                   /\ UNCHANGED <<last, job, todo, chan>>
    /\ UNCHANGED finished
    /\ UNCHANGED <<projectvars, rt, native, native_target, emitted, now, last_checked, last_built, seen>>

\* build_for_platform returns to command_build
BuildReturn ==
    /\ pc = "build_call"
    /\ \E status \in ExitStatuses :
          IF build_goes_on(Exited(status))
          THEN /\ FinishBuild(status)
               /\ running' = {}
               /\ todo' = Tail(todo)
               /\ pc' = "build_next"
               /\ UNCHANGED <<last, job, chan>>
          ELSE /\ Exit("build", 101, "panic_build_failed")
               /\ UNCHANGED finished
    /\ UNCHANGED <<projectvars, rt, native, native_target, runs, emitted, now,
                   last_checked, last_built, seen>>

\* command_build has built every platform
BuildDone ==
    /\ pc = "build_next"
    /\ todo = <<>>
    /\ Exit("build", 0, "none")
    /\ UNCHANGED <<projectvars, rt, native, native_target, runs, finished, emitted, now, last_checked, last_built,
                   seen>>

\* command_build_and_watch up to the first build_for_platform
StartWatch(is_release) ==
    /\ pc = "idle"
    /\ emitted' = 0
    /\ seen' = NoEvent
    /\ IF ~in_lib_dir(config)
       THEN /\ Exit("watch", 1, "not_lib_dir")
            /\ runs' = <<>> /\ finished' = NoFinish
       ELSE IF ~ToolchainKnown(native)
       THEN /\ Exit("watch", 101, "panic_toolchain")
            /\ runs' = <<>> /\ finished' = NoFinish
       ELSE \E spawned \in BOOLEAN :
            IF ~spawned
            THEN /\ Exit("watch", 101, "panic_spawn")
                 /\ runs' = <<>> /\ finished' = NoFinish
            ELSE
            /\ job' = [watch |-> TRUE, is_release |-> is_release,
                       build_all_platforms |-> FALSE]
            /\ runs' = <<build_for_platform(ToSnake(config.name), GodotProjectPath,
                                            native, is_release, config.is_plugin,
                                            native, native_target).run>>
            /\ finished' = NoFinish
            /\ running' = {1}
            /\ pc' = "first_build"
            /\ UNCHANGED <<last, todo, chan>>
    /\ UNCHANGED <<projectvars, rt, native, native_target, now, last_checked, last_built>>

\* the first build returns: last_checked is set and the watcher is started
FirstBuildReturn ==
    /\ pc = "first_build"
    /\ \E status \in ExitStatuses :
          IF build_goes_on(Exited(status))
          THEN /\ FinishBuild(status)
               /\ running' = {}
               /\ last_checked' = now
               /\ last_built' = now
               /\ pc' = "recv"
               /\ UNCHANGED <<last, job, todo, chan>>
          ELSE /\ Exit("watch", 101, "panic_build_failed")
               /\ UNCHANGED <<finished, last_checked, last_built>>
    /\ UNCHANGED <<projectvars, rt, native, native_target, runs, emitted, now, seen>>

\* what the watcher thread sends: a write, another operation, or an event
\* without a path or with a failed operation
EventOps == {"write", "other", "broken"}

\* true while the watcher thread exists
Watching == pc \in {"recv", "rebuild"}

\* the watcher thread sends an event into the channel
WatcherSend(op) ==
    /\ Watching
    /\ emitted < MaxEvents
    /\ chan' = Append(chan, op)
    /\ emitted' = emitted + 1
    /\ UNCHANGED <<projectvars, last, rt, native, native_target, runs, finished, pc, job, todo, running, now,
                   last_checked, last_built, seen>>

\* a second passes on the wall clock
Tick ==
    /\ pc # "idle"
    /\ now < MaxTime
    /\ now' = now + 1
    /\ UNCHANGED <<projectvars, last, rt, native, native_target, runs, finished, pc, job, todo, running, chan,
                   emitted, last_checked, last_built, seen>>

\* a loop that would receive while a rebuild runs
MainInRecvOrRebuild == pc \in {"recv", "rebuild"}

\* the main loop is blocked in rx.recv()
MainInRecv == pc = "recv"

\* the loop ends after an item that is no event with a path and an operation
loop_goes_on_after_events(item) == item \in {"write", "other"}

\* the arms of the match in the loop have no break and no return
loop_goes_on(item) == TRUE

\* the watch ends from within: the clock and the times of the loop are gone
WatchEnds(status, log) ==
    /\ Exit("watch", status, log)
    /\ now' = 0
    /\ last_checked' = 0
    /\ last_built' = 0

\* what the loop has seen last
Seen(op, built) == [op |-> op, at |-> now, last_built |-> last_built, built |-> built]

\* rx.recv() returns an event and the loop handles it
Recv ==
    /\ MainInRecv
    /\ chan # <<>>
    /\ IF ~loop_goes_on(Head(chan))
       THEN /\ WatchEnds(0, "none")
            /\ seen' = Seen(Head(chan), FALSE)
            /\ UNCHANGED runs
       ELSE IF Head(chan) # "write"
       THEN /\ chan' = Tail(chan)
            /\ seen' = Seen(Head(chan), FALSE)
            /\ UNCHANGED <<last, runs, running, pc, job, todo, now, last_checked,
                           last_built>>
       ELSE IF now - last_checked # 0
       THEN /\ chan' = Tail(chan)
            /\ last_checked' = now
            /\ seen' = Seen("write", FALSE)
            /\ UNCHANGED <<last, runs, running, pc, job, todo, now, last_built>>
       ELSE \E spawned \in BOOLEAN :
            IF ~spawned
            THEN /\ WatchEnds(101, "panic_spawn")
                 /\ seen' = Seen("write", FALSE)
                 /\ UNCHANGED runs
            ELSE /\ chan' = Tail(chan)
                 /\ BeginBuild(native)
                 /\ pc' = "rebuild"
                 /\ seen' = Seen("write", TRUE)
                 /\ UNCHANGED <<last, job, todo, now, last_checked, last_built>>
    /\ UNCHANGED <<projectvars, rt, native, native_target, finished, emitted>>

\* rx.recv() returns an error, the channel is disconnected: it is logged
RecvError ==
    /\ MainInRecv
    /\ chan = <<>>
    /\ seen.op # "error"
    /\ seen' = Seen("error", FALSE)
    /\ IF loop_goes_on("error")
       THEN UNCHANGED <<last, pc, job, todo, running, chan, now, last_checked, last_built>>
       ELSE WatchEnds(0, "none")
    /\ UNCHANGED <<projectvars, rt, native, native_target, runs, finished, emitted>>

\* the rebuild returns: last_checked is set and the loop goes back to recv
RebuildReturn ==
    /\ pc = "rebuild"
    /\ \E status \in ExitStatuses :
          IF build_goes_on(Exited(status))
          THEN /\ FinishBuild(status)
               /\ running' = running \ {Len(runs)}
               /\ last_checked' = now
               /\ last_built' = now
               /\ pc' = "recv"
               /\ UNCHANGED <<last, job, todo, chan>>
          ELSE /\ Exit("watch", 101, "panic_build_failed")
               /\ UNCHANGED <<finished, last_checked, last_built>>
    /\ UNCHANGED <<projectvars, rt, native, native_target, runs, emitted, now, seen>>

\* the user ends the watch with ctrl-c
Interrupt ==
    /\ Watching
    /\ Exit("watch", 130, "interrupted")
    /\ now' = 0
    /\ last_checked' = 0
    /\ last_built' = 0
    /\ UNCHANGED <<projectvars, rt, native, native_target, runs, finished, emitted, seen>>

BuildSteps ==
    \/ \E is_release, build_all_platforms \in BOOLEAN :
          StartBuild(is_release, build_all_platforms)
    \/ BuildNext
    \/ BuildReturn
    \/ BuildDone
    \/ \E is_release \in BOOLEAN : StartWatch(is_release)
    \/ FirstBuildReturn
    \/ \E op \in EventOps : WatcherSend(op)
    \/ Tick
    \/ Recv
    \/ RecvError
    \/ RebuildReturn
    \/ Interrupt

BuildSpec == BuildInit /\ [][BuildSteps]_vars

(***************************************************************************)
(* create and destroy step by step: one step for every file written or     *)
(* removed.  The process may end between two steps, and nothing is undone. *)
(***************************************************************************)
StepNames == {PascalName, <<"M","o","d","e","l">>}
CreateSteps == {"create_src", "create_lib", "create_gdns", "create_config"}
DestroySteps == {"destroy_gdns", "destroy_lib", "destroy_src"}

\* the command has begun and runs on
Running(op, name) == last' = [op |-> op, arg |-> name, exit |-> 0, log |-> "running"]
\* the command ends with a status
Ended(status, log) == last' = [last EXCEPT !.exit = status, !.log = log]

\* command_create up to the module file: the checks and the message
BeginCreate(name) ==
    /\ pc = "idle"
    /\ Len(config.modules) < MaxModules
    /\ Len(lib) + 2 <= MaxLibLines
    /\ IF ~in_lib_dir(config)
       THEN /\ last' = [op |-> "create", arg |-> name, exit |-> 1, log |-> "not_lib_dir"]
            /\ UNCHANGED pc
       ELSE /\ Running("create", name)
            /\ pc' = "create_src"
    /\ rt' = NoRt
    /\ runs' = <<>> /\ finished' = NoFinish
    /\ UNCHANGED <<projectvars, native, native_target, job, todo, running, chan, emitted,
                   now, last_checked, last_built, seen>>

\* write_and_fmt of src/<snake>.rs
CreateWriteModule ==
    /\ pc = "create_src"
    /\ src_files' = src_files \cup {ToSnake(last.arg)}
    /\ pc' = "create_lib"
    /\ UNCHANGED <<config, lib, gdns_files, cross, gdnlib, last, rt, native, native_target,
                   runs, finished, job, todo, running, chan, emitted, now, last_checked, last_built,
                   seen>>

\* add_module_to_lib
CreateAddToLib ==
    /\ pc = "create_lib"
    /\ lib' = add_module_to_lib(last.arg, config.modules, config.is_plugin, lib)
    /\ pc' = "create_gdns"
    /\ UNCHANGED <<config, src_files, gdns_files, cross, gdnlib, last, rt, native,
                   native_target, runs, finished, job, todo, running, chan, emitted, now,
                   last_checked, last_built, seen>>

\* gdns_file.write
CreateWriteGdns ==
    /\ pc = "create_gdns"
    /\ gdns_files' = gdns_files \cup {GdnsAtDefault(ToSnake(last.arg), config.is_plugin)}
    /\ pc' = "create_config"
    /\ UNCHANGED <<config, lib, src_files, cross, gdnlib, last, rt, native, native_target,
                   runs, finished, job, todo, running, chan, emitted, now, last_checked, last_built,
                   seen>>

\* add_module_to_config, and the command is over
CreateAddToConfig ==
    /\ pc = "create_config"
    /\ config' = add_module_to_config(last.arg, config)
    /\ pc' = "idle"
    /\ Ended(0, "none")
    /\ UNCHANGED <<lib, src_files, gdns_files, cross, gdnlib, rt, native, native_target,
                   runs, finished, job, todo, running, chan, emitted, now, last_checked, last_built,
                   seen>>

\* command_destroy up to the gdns file: remove_module_from_config_if_exists
BeginDestroy(name) ==
    /\ pc = "idle"
    /\ LET removed == remove_module_from_config_if_exists(ToPascal(name), config)
       IN  IF ~in_lib_dir(config)
           THEN /\ last' = [op |-> "destroy", arg |-> name, exit |-> 1,
                            log |-> "not_lib_dir"]
                /\ UNCHANGED <<config, pc>>
           ELSE IF ~removed.ok
           THEN /\ last' = [op |-> "destroy", arg |-> name, exit |-> 1,
                            log |-> "module_missing"]
                /\ UNCHANGED <<config, pc>>
           ELSE /\ Running("destroy", name)
                /\ config' = removed.config
                /\ pc' = "destroy_gdns"
    /\ rt' = NoRt
    /\ runs' = <<>> /\ finished' = NoFinish
    /\ UNCHANGED <<lib, src_files, gdns_files, cross, gdnlib, native, native_target, job,
                   todo, running, chan, emitted, now, last_checked, last_built, seen>>

\* remove_file of the gdns file, at its default place or where the walk finds it
DestroyRemoveGdns ==
    /\ pc = "destroy_gdns"
    /\ gdns_files' = remove_gdns_file(gdns_files, ToSnake(last.arg), config.is_plugin)
    /\ pc' = "destroy_lib"
    /\ UNCHANGED <<config, lib, src_files, cross, gdnlib, last, rt, native, native_target,
                   runs, finished, job, todo, running, chan, emitted, now, last_checked, last_built,
                   seen>>

\* the three filters and write_and_fmt of src/lib.rs
DestroyWriteLib ==
    /\ pc = "destroy_lib"
    /\ lib' = write_and_fmt(remove_module_lines(lib, ToSnake(last.arg), ToPascal(last.arg)))
    /\ pc' = "destroy_src"
    /\ UNCHANGED <<config, src_files, gdns_files, cross, gdnlib, last, rt, native,
                   native_target, runs, finished, job, todo, running, chan, emitted, now,
                   last_checked, last_built, seen>>

\* remove_file of src/<snake>.rs, and the command is over
DestroyRemoveModule ==
    /\ pc = "destroy_src"
    /\ IF ToSnake(last.arg) \in src_files
       THEN /\ src_files' = src_files \ {ToSnake(last.arg)}
            /\ Ended(0, "none")
       ELSE /\ UNCHANGED src_files
            /\ Ended(101, "panic_remove_file")
    /\ pc' = "idle"
    /\ UNCHANGED <<config, lib, gdns_files, cross, gdnlib, rt, native, native_target,
                   runs, finished, job, todo, running, chan, emitted, now, last_checked, last_built,
                   seen>>

\* the process ends between two steps: an expect panics, or it is killed
Abort ==
    /\ pc \in CreateSteps \cup DestroySteps
    /\ pc' = "idle"
    /\ Ended(101, "aborted")
    /\ UNCHANGED <<projectvars, rt, native, native_target, runs, finished, job, todo, running,
                   chan, emitted, now, last_checked, last_built, seen>>

StepNext ==
    \/ \E name \in StepNames : BeginCreate(name)
    \/ CreateWriteModule
    \/ CreateAddToLib
    \/ CreateWriteGdns
    \/ CreateAddToConfig
    \/ \E name \in StepNames : BeginDestroy(name)
    \/ DestroyRemoveGdns
    \/ DestroyWriteLib
    \/ DestroyRemoveModule
    \/ Abort

StepSpec == Init /\ [][StepNext]_vars

(***************************************************************************)
(* build_for_platform for every platform of its table, in the project as   *)
(* new left it.                                                             *)
(***************************************************************************)
PlacementInit ==
    /\ \E st \in {NewProject(FALSE), NewProject(TRUE)} : InitProject(st)
    /\ last = [op |-> "new", arg |-> NewArg(LibraryName, GodotProjectPath),
               exit |-> 0, log |-> "none"]
    /\ rt = NoRt
    /\ native \in NativePlatforms
    /\ native_target \in HostTargets[native]
    /\ runs = <<>>
    /\ finished = NoFinish
    /\ ProcIdle

\* one call of build_for_platform, from its build command to its report
BuildFor(platform, is_release) ==
    /\ Len(runs) < MaxRuns
    /\ \E result \in StatusResults :
         LET b == build_for_platform(ToSnake(config.name), GodotProjectPath, platform,
                                     is_release, config.is_plugin, native, native_target)
         IN  IF ~b.ok
             THEN /\ last' = [op |-> "build_for_platform", arg |-> platform,
                              exit |-> 101, log |-> "panic_toolchain"]
                  /\ UNCHANGED <<runs, finished>>
             ELSE IF ~build_goes_on(result)
             THEN /\ last' = [op |-> "build_for_platform", arg |-> platform,
                              exit |-> 101, log |-> "panic_spawn"]
                  /\ UNCHANGED <<runs, finished>>
             ELSE /\ last' = [op |-> "build_for_platform", arg |-> platform,
                              exit |-> 0, log |-> "none"]
                  /\ runs' = Append(runs, b.run)
                  /\ finished' = after_build(b.run, result.code)
    /\ UNCHANGED <<projectvars, rt, native, native_target, procvars>>

PlacementNext ==
    \E platform \in DOMAIN PLATFORM_TOOLCHAINS, is_release \in BOOLEAN :
        BuildFor(platform, is_release)

PlacementSpec == PlacementInit /\ [][PlacementNext]_vars

(***************************************************************************)
(* Reading src/lib.rs                                                       *)
(***************************************************************************)
HasPrefix(line, prefix) ==
    Len(line) >= Len(prefix) /\ SubSeq(line, 1, Len(prefix)) = prefix

IsRegistration(line) == HasPrefix(line, T_add_class) \/ HasPrefix(line, T_add_tool_class)
IsFnOpen(line) == HasPrefix(line, T_fn_open)

\* the registration lines, in file order
RegLines(contents) == SelectSeq(contents, IsRegistration)
\* the declaration and registration lines, in file order
DeclRegLines(contents) ==
    SelectSeq(contents, LAMBDA line : IsModDecl(line) \/ IsRegistration(line))

CountLines(contents, text) == Cardinality({i \in 1..Len(contents) : contents[i] = text})

DeclCount(name) == CountLines(lib, ModLine(ToSnake(name)))
RegCount(name) == CountLines(lib, HandleLine(ToSnake(name), ToPascal(name)))
                    + CountLines(lib, ToolHandleLine(ToSnake(name), ToPascal(name)))

\* the registration line create writes for a name in this project
RegLineFor(name) ==
    IF config.is_plugin THEN ToolHandleLine(ToSnake(name), ToPascal(name))
    ELSE HandleLine(ToSnake(name), ToPascal(name))

IsRootName(name) == config.is_plugin /\ ToSnake(name) = ToSnake(config.name)

(***************************************************************************)
(* Claims                                                                   *)
(***************************************************************************)

\* C1: a create that exits with 0, followed by destroy of the same name,
\* restores the module list of the manifest, the declaration and
\* registration lines of src/lib.rs, the module files and the gdns files.
C1_RoundTrip ==
    [][ (rt.valid /\ last.op = "create" /\ last'.op = "destroy" /\ last'.arg = rt.name)
          => /\ last'.exit = 0
             /\ config'.modules = rt.snap.config.modules
             /\ DeclRegLines(lib') = DeclRegLines(rt.snap.lib)
             /\ src_files' = rt.snap.src_files
             /\ gdns_files' = rt.snap.gdns_files ]_vars

\* C2: every module of the manifest has exactly one declaration line and
\* exactly one registration line, and so has the root module of a plugin.
C2_OneLinePerModule ==
    config.exists =>
        /\ \A i \in 1..Len(config.modules) :
              DeclCount(config.modules[i]) = 1 /\ RegCount(config.modules[i]) = 1
        /\ config.is_plugin => DeclCount(config.name) = 1 /\ RegCount(config.name) = 1

\* C3: create puts the registration line right after the opening of init
\* exactly when no module is registered yet, and otherwise right after the
\* last registration line, so that registration lines stay in creation order.
C3_RegistrationOrder ==
    [][ (last'.op = "create" /\ last'.exit = 0)
          => IF RegLines(lib) = <<>>
             THEN \E i \in 1..(Len(lib') - 1) :
                     IsFnOpen(lib'[i]) /\ lib'[i + 1] = RegLineFor(last'.arg)
             ELSE RegLines(lib') = Append(RegLines(lib), RegLineFor(last'.arg)) ]_vars

\* C4: in a plugin project no entry of manifest.modules names the root
\* module, src/lib.rs holds the declaration line and the tool registration
\* line of the root module, and a create with the name of the root module
\* exits with 0 and leaves the manifest as it was.
C4_RootUntracked ==
    (config.exists /\ config.is_plugin) =>
        /\ \A i \in 1..Len(config.modules) :
              ToSnake(config.modules[i]) # ToSnake(config.name)
        /\ CountLines(lib, ModLine(ToSnake(config.name))) >= 1
        /\ CountLines(lib, ToolHandleLine(ToSnake(config.name), ToPascal(config.name))) >= 1
        /\ (last.op = "create" /\ IsRootName(last.arg))
              => (last.exit = 0 /\ rt.valid /\ rt.snap.config = config)

\* a plugin with a module in its manifest, right after a create with the
\* name of the root module
C4_Witness ==
    /\ config.is_plugin
    /\ Len(config.modules) > 0
    /\ last.op = "create"
    /\ last.arg = config.name

\* C5: in a plugin project destroy with the name of the root module exits
\* with a non-zero status and changes no file.
C5_DestroyRootFails ==
    [][ (last'.op = "destroy" /\ IsRootName(last'.arg))
          => (last'.exit # 0 /\ Project' = Project) ]_vars

\* a plugin right after a failed destroy of its root module
C5_Witness ==
    /\ config.is_plugin
    /\ last.op = "destroy"
    /\ last.arg = config.name
    /\ last.exit = 1
    /\ ToSnake(config.name) \in src_files

\* C6: after a create the manifest lists the PascalCase form of the name,
\* src/lib.rs declares the snake_case form and registers snake::Pascal.
C6_CanonicalForms ==
    (last.op = "create" /\ last.exit = 0)
        => /\ IsRootName(last.arg) \/ is_module_in_config(ToPascal(last.arg), config)
           /\ CountLines(lib, ModLine(ToSnake(last.arg))) >= 1
           /\ CountLines(lib, RegLineFor(last.arg)) >= 1

\* C7: create with a name the manifest already lists exits with a non-zero
\* status and changes no file.
C7_DuplicateCreateFails ==
    [][ (last'.op = "create" /\ is_module_in_config(last'.arg, config))
          => (last'.exit # 0 /\ Project' = Project) ]_vars

\* C8: destroy of a module the manifest does not list and remove-platform of
\* a platform the manifest does not list exit with a non-zero status and
\* change no file.
C8_RemoveAbsentFails ==
    [][ /\ (last'.op = "destroy" /\ ~is_module_in_config(ToPascal(last'.arg), config))
            => (last'.exit # 0 /\ Project' = Project)
        /\ (last'.op = "remove_platform"
              /\ ~is_platform_in_config(ToLowercase(last'.arg), config))
            => (last'.exit # 0 /\ Project' = Project) ]_vars

\* a failed destroy of a module whose source file exists but whose
\* PascalCase name the manifest does not list
C8_Witness ==
    /\ config.exists
    /\ last.op = "destroy"
    /\ last.exit = 1
    /\ ToSnake(last.arg) \in src_files
    /\ ~is_module_in_config(ToPascal(last.arg), config)

\* C9: add-platform linux on a manifest without linux exits with 0 and adds
\* it; on a manifest with linux it exits with a non-zero status and the
\* platform list stays as it was.
C9_AddLinuxTwice ==
    [][ (config.exists /\ last'.op = "add_platform" /\ last'.arg = P_linux)
          => IF ~is_platform_in_config(P_linux, config)
             THEN last'.exit = 0 /\ config'.platforms = Append(config.platforms, P_linux)
             ELSE last'.exit # 0 /\ config'.platforms = config.platforms ]_vars

\* C10: add-platform of a documented platform that the manifest does not
\* list exits with 0 and lists it, and a remove-platform of that platform
\* right after exits with 0 and restores the platform list.
C10_AddRemovePlatform ==
    [][ /\ (config.exists /\ last'.op = "add_platform"
              /\ ToLowercase(last'.arg) \in DocumentedPlatforms
              /\ ~is_platform_in_config(ToLowercase(last'.arg), config))
            => (last'.exit = 0 /\ is_platform_in_config(ToLowercase(last'.arg), config'))
        /\ (rt.valid /\ last.op = "add_platform" /\ last'.op = "remove_platform"
              /\ ToLowercase(last'.arg) = ToLowercase(rt.name))
            => (last'.exit = 0 /\ config'.platforms = rt.snap.config.platforms) ]_vars

\* the platforms of a list of builds
RunPlatforms(rs) == [i \in 1..Len(rs) |-> rs[i].platform]

\* a step in which build_for_platform is entered
BuildBegins == Len(runs') = Len(runs) + 1

\* C11: a build for the native platform runs cargo and never cross; a build
\* for another platform runs cross and never cargo, with the triple that
\* PLATFORM_TOOLCHAINS gives for the platform.
C11_NativeOrCross ==
    \A i \in 1..Len(runs) :
        IF runs[i].platform = native
        THEN runs[i].tool = "cargo"
        ELSE /\ runs[i].tool = "cross"
             /\ runs[i].target = PLATFORM_TOOLCHAINS[runs[i].platform]

\* a finished build of all platforms that ran cargo and then cross
C11_Witness ==
    /\ pc = "idle"
    /\ last.op = "build"
    /\ last.exit = 0
    /\ Len(runs) = 2
    /\ runs[1].tool = "cargo"
    /\ runs[2].tool = "cross"
    /\ runs[2].platform # native

C13_BinPath ==
    \A i \in 1..Len(runs) :
        runs[i].bin_path =
            IF config.is_plugin
            THEN GodotProjectPath
                   \o <<D_addons, ToSnake(config.name), D_gdnative, D_bin, runs[i].platform>>
            ELSE GodotProjectPath \o <<D_gdnative, D_bin, runs[i].platform>>

\* a plugin in which two release builds of one platform went to the same
\* directory
C13_Witness ==
    /\ config.is_plugin
    /\ Len(runs) >= 2
    /\ runs[1].platform = runs[2].platform
    /\ runs[1].bin_path = runs[2].bin_path
    /\ runs[1].release

\* a step in which the loop of the watch takes an event from the channel
Receives == pc = "recv" /\ pc' # "idle" /\ chan # <<>> /\ chan' = Tail(chan)

\* C14: the watch makes one build at once; for a write event it rebuilds
\* unless the build before returned in the same second, and then it makes
\* exactly one build; other events make no build.
C14_Debounce ==
    [][ /\ (pc = "idle" /\ pc' = "first_build") => Len(runs') = 1
        /\ (Receives /\ Head(chan) = "write")
            => /\ seen'.built <=> (now # last_built)
               /\ Len(runs') = Len(runs) + (IF seen'.built THEN 1 ELSE 0)
        /\ (Receives /\ Head(chan) # "write") => runs' = runs ]_vars

\* C15: in a watch at most one build is running, whatever the watcher
\* thread sends meanwhile: a rebuild begins only when none is running.
C15_OneRebuildInFlight ==
    job.watch => Cardinality(running) <= 1

\* a rebuild is running while an event waits in the channel
C15_Witness ==
    /\ pc = "rebuild"
    /\ Len(chan) >= 1
    /\ Cardinality(running) = 1

\* C16: a new project that is no plugin has no module, no platform and no
\* declaration or registration line; create of a PascalCase name in it lists
\* that name alone and writes one declaration and one plain registration
\* line; destroy of the name right after leaves no module, no such line and
\* no gdns file of the module.
C16_NewCreateDestroy ==
    [][ /\ (last.op = "new" /\ config.exists /\ ~config.is_plugin)
            => /\ config.modules = <<>>
               /\ config.platforms = <<>>
               /\ DeclRegLines(lib) = <<>>
               /\ (last'.op = "create" /\ last'.arg = PascalName)
                    => /\ last'.exit = 0
                       /\ config'.modules = <<PascalName>>
                       /\ DeclRegLines(lib')
                            = <<ModLine(ToSnake(PascalName)),
                                HandleLine(ToSnake(PascalName), PascalName)>>
        /\ (/\ rt.valid /\ last.op = "create" /\ last.arg = PascalName
            /\ rt.snap = NewProject(FALSE)
            /\ last'.op = "destroy" /\ last'.arg = PascalName)
            => /\ last'.exit = 0
               /\ config'.modules = <<>>
               /\ DeclRegLines(lib') = <<>>
               /\ \A f \in gdns_files' : f.stem # ToSnake(PascalName) ]_vars

\* a project that is no plugin right after the destroy of its only module
C16_Witness ==
    /\ config.exists
    /\ ~config.is_plugin
    /\ last.op = "destroy"
    /\ last.arg = PascalName
    /\ last.exit = 0
    /\ config.modules = <<>>
    /\ src_files = {}

\* C17: the registration lines of src/lib.rs are add_tool_class lines in a
\* plugin and add_class lines otherwise, so no module has both, and a create
\* that exits with 0 leaves the line of its kind for the module.
C17_RegistrationKind ==
    config.exists =>
        /\ \A i \in 1..Len(lib) :
              /\ HasPrefix(lib[i], T_add_tool_class) => config.is_plugin
              /\ HasPrefix(lib[i], T_add_class) => ~config.is_plugin
        /\ (last.op = "create" /\ last.exit = 0)
              => CountLines(lib, RegLineFor(last.arg)) >= 1

\* a plugin with the registration lines of its root module and of a module
C17_Witness ==
    /\ config.is_plugin
    /\ last.op = "create"
    /\ last.exit = 0
    /\ Len(RegLines(lib)) >= 2

\* C18: where no manifest is, create, destroy, add-platform, remove-platform
\* and build exit with a non-zero status, leave every file as it was and run
\* no build tool.
C18_NoManifestNoEffect ==
    [][ ~config.exists
          => /\ last'.op \in {"create", "destroy", "add_platform", "remove_platform",
                              "build"}
             /\ last'.exit # 0
             /\ Project' = Project
             /\ runs' = <<>> ]_vars

\* a failed create where no manifest is
C18_Witness ==
    /\ ~config.exists
    /\ last.op = "create"
    /\ last.exit = 1
    /\ Project = NotALibrary

\* the gdns files of a module in the Godot project
GdnsOf(files, stem) == {f \in files : f.stem = stem}

\* C19: new exits with a non-zero status and leaves every file as it was
\* when the directory of the library the name leads to exists already,
\* however the name is typed, and when the Godot project directory has no
\* project.godot file.
C19_NewRefusesExisting ==
    [][ (/\ last'.op = "new"
         /\ \/ config.exists /\ ToSnake(last'.arg.name) = ToSnake(config.name)
            \/ ~has_project_godot(last'.arg.godot_project_dir))
          => (last'.exit # 0 /\ Project' = Project /\ runs' = <<>>) ]_vars

\* the gdns files of a module that destroy can find
Findable(files, stem, is_plugin) ==
    {f \in GdnsOf(files, stem) : in_search_dir(f.loc, is_plugin)}

\* C20: a destroy that exits with 0 where a gdns file of the module is in
\* the default directory, or in the directory the walk goes through (the
\* plugin directory of a plugin, otherwise the Godot project), deletes
\* exactly one gdns file: the one in the default directory when it is
\* there, and otherwise one of those the walk finds.
C20_DestroyRemovesOne ==
    [][ (/\ last'.op = "destroy"
         /\ last'.exit = 0
         /\ Findable(gdns_files, ToSnake(last'.arg), config.is_plugin) # {})
          => \E f \in Findable(gdns_files, ToSnake(last'.arg), config.is_plugin) :
                /\ gdns_files' = gdns_files \ {f}
                /\ GdnsAtDefault(ToSnake(last'.arg), config.is_plugin) \in gdns_files
                      => f = GdnsAtDefault(ToSnake(last'.arg), config.is_plugin) ]_vars

\* the entries of a module list other than one name
OtherModules(modules, m) == SelectSeq(modules, LAMBDA n : n # m)

C22_LibraryDescriptor ==
    gdnlib.exists =>
        /\ DOMAIN gdnlib.entry = GdnlibKeys
        /\ DOMAIN gdnlib.dependencies = GdnlibKeys
        /\ Cardinality(GdnlibKeys) = 5
        /\ \A k \in GdnlibKeys :
              /\ gdnlib.dependencies[k] = <<>>
              /\ gdnlib.entry[k].file.name = ToSnake(config.name)
              /\ gdnlib.entry[k].file.prefix = IF k = "Windows.64" THEN "" ELSE "lib"
              /\ gdnlib.entry[k].file.ext
                    = IF k = "Windows.64" THEN "dll"
                      ELSE IF k = "OSX.64" THEN "dylib" ELSE "so"
              /\ IF config.is_plugin
                 THEN SubSeq(gdnlib.entry[k].dir, 1, 5)
                        = <<ResScheme, <<>>, D_addons, ToSnake(config.name), D_gdnative>>
                 ELSE SubSeq(gdnlib.entry[k].dir, 1, 3) = <<ResScheme, <<>>, D_gdnative>>

\* a new with its build that made a plugin of the library, with its gdnlib
C22_Witness ==
    /\ last.op = "new"
    /\ last.exit = 0
    /\ runs # <<>>
    /\ config.is_plugin
    /\ gdnlib.exists
    /\ gdnlib.entry["X11.64"].dir[3] = D_addons

\* C23: no two entries of manifest.modules have the same canonical form:
\* neither one name twice nor two names of one PascalCase form.
C23_UniqueModules ==
    \A i, j \in 1..Len(config.modules) :
        i # j => ToPascal(config.modules[i]) # ToPascal(config.modules[j])

\* the lines of a module as the user edited them
EditedStatements(name) == {EditedLine(line) : line \in ModuleStatements(name)}

\* C24: destroy of a module of the manifest, with its source file and its
\* gdns file, of which src/lib.rs holds an edited declaration or
\* registration line, exits with 0 and logs no error, takes the module out
\* of the manifest, deletes the source file and the gdns file, and leaves
\* the edited lines in src/lib.rs.
C24_EditedLineStays ==
    [][ (/\ last'.op = "destroy"
         /\ is_module_in_config(ToPascal(last'.arg), config)
         /\ ToSnake(last'.arg) \in src_files
         /\ GdnsAtDefault(ToSnake(last'.arg), config.is_plugin) \in gdns_files
         /\ \E i \in 1..Len(lib) : lib[i] \in EditedStatements(last'.arg))
          => /\ last'.exit = 0
             /\ last'.log = "none"
             /\ Len(config'.modules) = Len(config.modules) - 1
             /\ ToSnake(last'.arg) \notin src_files'
             /\ GdnsAtDefault(ToSnake(last'.arg), config.is_plugin) \notin gdns_files'
             /\ \A line \in EditedStatements(last'.arg) :
                   CountLines(lib', line) = CountLines(lib, line) ]_vars

\* a destroyed module whose edited declaration is still in src/lib.rs
C24_Witness ==
    /\ last.op = "destroy"
    /\ last.exit = 0
    /\ ~is_module_in_config(ToPascal(last.arg), config)
    /\ ToSnake(last.arg) \notin src_files
    /\ CountLines(lib, T_pub \o ModLine(ToSnake(last.arg))) >= 1

\* the lines of a file that open the body of a function
FnOpenLines(contents) == {j \in 1..Len(contents) : IsFnOpen(contents[j])}

\* C25: after a create that exits with 0, every declaration line of the new
\* module stands before the line that opens init, never inside its body,
\* whatever module names exist already.
C25_DeclarationBeforeInit ==
    [][ (last'.op = "create" /\ last'.exit = 0)
          => \A i \in 1..Len(lib') :
                lib'[i] = ModLine(ToSnake(last'.arg))
                   => \A j \in FnOpenLines(lib') : i < j ]_vars

\* the module has its source file, a gdns file, a declaration line and a
\* registration line
HasArtifacts(name) ==
    /\ ToSnake(name) \in src_files
    /\ \E f \in gdns_files : f.stem = ToSnake(name)
    /\ DeclCount(name) >= 1
    /\ RegCount(name) >= 1

\* C26: at every point of a create or a destroy, between two steps as well
\* as after an abort, every module of the manifest has its source file, its
\* gdns file, a declaration line and a registration line.
C26_ManifestHasArtifacts ==
    config.exists => \A i \in 1..Len(config.modules) : HasArtifacts(config.modules[i])

\* the watch process ends in this step
WatchStops == job.watch /\ pc \in {"recv", "rebuild"} /\ pc' = "idle"

Returns ==
    /\ pc \in {"build_call", "first_build", "rebuild"}
    /\ pc' # pc
    /\ ~(pc' = "idle" /\ last'.exit = 130)

C29_NativeTriple ==
    \A i \in 1..Len(runs) :
        runs[i].tool = "cargo" => runs[i].target = runs[i].library.toolchain

\* the key of the gdnlib file under which Godot looks up a platform
GdnlibKeyOf(platform) ==
    CASE platform = P_android_arm -> "Android.arm64-v8a"
      [] platform = P_android -> "Android.x86_64"
      [] platform = P_windows -> "Windows.64"
      [] platform = P_linux -> "X11.64"
      [] platform = P_macos -> "OSX.64"

\* a directory of the Godot project as a res:// path
ResPath(dir) ==
    <<ResScheme, <<>>>> \o SubSeq(dir, Len(GodotProjectPath) + 1, Len(dir))

\* where a build puts the dynamic library: the directory and the file name
Placed(run) ==
    [dir |-> ResPath(run.bin_path),
     file |-> [prefix |-> run.library.prefix, name |-> run.library.name,
               ext |-> run.library.ext]]

\* C30: for every platform of the toolchain table, in a plugin or not, the
\* directory and the file name build_for_platform copies the library to are
\* those the gdnlib file written by new records for the platform.
C30_PlacedWhereRecorded ==
    gdnlib.exists =>
        \A i \in 1..Len(runs) :
            Placed(runs[i]) = gdnlib.entry[GdnlibKeyOf(runs[i].platform)]

============================================================================
